---- MODULE Spec2Model ----
(***************************************************************************)
(* Model of fastnbt's typed value core (fastnbt/src/lib.rs): the Tag       *)
(* catalog, the strict scalar discriminators, the untagged Value enum's    *)
(* variant selection, the CompTag array gate, and compound decoding.       *)
(*                                                                         *)
(* Each behaviour is one call: Init draws the call (operation + input),    *)
(* the operation's action computes its result.  Compound decoding is the   *)
(* only multi-step operation.                                              *)
(***************************************************************************)
EXTENDS Integers, Sequences, FiniteSets, TLC

VARIABLES call, pc, res, input, pos, entries

vars == <<call, pc, res, input, pos, entries>>

----------------------------------------------------------------------------
(* Bounds *)

\* integers -SampleMag..SampleMag are sampled at every width, next to the
\* minimum and maximum of the width
SampleMag == 2

\* longest compound body (in bytes) that is enumerated
MaxInput == 9

----------------------------------------------------------------------------
(* Results: Ok(kind, val) or Err(err) *)

R(ok, kind, val, err) == [ok |-> ok, kind |-> kind, val |-> val, err |-> err]

Ok(kind, val) == R(TRUE, kind, val, "")

Err(err) == R(FALSE, "none", 0, err)

Pending == R(FALSE, "none", 0, "pending")

----------------------------------------------------------------------------
(* Tag catalog, lib.rs 104-137, 251-293 *)

U8_MAX == 255

U8 == 0..U8_MAX

Tag == {"End", "Byte", "Short", "Int", "Long", "Float", "Double", "ByteArray",
        "String", "List", "Compound", "IntArray", "LongArray"}

\* the discriminant each variant declares in the #[repr(u8)] enum
TagDiscriminant(t) ==
    CASE t = "End" -> 0
      [] t = "Byte" -> 1
      [] t = "Short" -> 2
      [] t = "Int" -> 3
      [] t = "Long" -> 4
      [] t = "Float" -> 5
      [] t = "Double" -> 6
      [] t = "ByteArray" -> 7
      [] t = "String" -> 8
      [] t = "List" -> 9
      [] t = "Compound" -> 10
      [] t = "IntArray" -> 11
      [] t = "LongArray" -> 12

BYTE_ARRAY_TAG == 7

INT_ARRAY_TAG == 11

LONG_ARRAY_TAG == 12

TagOk(t) == Ok(t, 0)

\* Err(()) of try_from
TagErr == Err("unknown tag")

\* a plausible slip in the match table: 11 and 12 both yield LongArray
Mut_Tag_try_from(value) ==
    CASE value = 0 -> TagOk("End")
      [] value = 1 -> TagOk("Byte")
      [] value = 2 -> TagOk("Short")
      [] value = 3 -> TagOk("Int")
      [] value = 4 -> TagOk("Long")
      [] value = 5 -> TagOk("Float")
      [] value = 6 -> TagOk("Double")
      [] value = 7 -> TagOk("ByteArray")
      [] value = 8 -> TagOk("String")
      [] value = 9 -> TagOk("List")
      [] value = 10 -> TagOk("Compound")
      [] value = 11 -> TagOk("LongArray")
      [] value = 12 -> TagOk("LongArray")
      [] value \in 13..U8_MAX -> TagErr

\* an off-by-one in the rejected range: 13 is taken for LongArray
Mut_Tag_try_from_range(value) ==
    CASE value = 0 -> TagOk("End")
      [] value = 1 -> TagOk("Byte")
      [] value = 2 -> TagOk("Short")
      [] value = 3 -> TagOk("Int")
      [] value = 4 -> TagOk("Long")
      [] value = 5 -> TagOk("Float")
      [] value = 6 -> TagOk("Double")
      [] value = 7 -> TagOk("ByteArray")
      [] value = 8 -> TagOk("String")
      [] value = 9 -> TagOk("List")
      [] value = 10 -> TagOk("Compound")
      [] value = 11 -> TagOk("IntArray")
      [] value \in 12..13 -> TagOk("LongArray")
      [] value \in 14..U8_MAX -> TagErr

\* slip: the first two arms swapped, 0 yields Byte and 1 yields End
Mut_Tag_try_from_end(value) ==
    CASE value = 0 -> TagOk("Byte")
      [] value = 1 -> TagOk("End")
      [] value = 2 -> TagOk("Short")
      [] value = 3 -> TagOk("Int")
      [] value = 4 -> TagOk("Long")
      [] value = 5 -> TagOk("Float")
      [] value = 6 -> TagOk("Double")
      [] value = 7 -> TagOk("ByteArray")
      [] value = 8 -> TagOk("String")
      [] value = 9 -> TagOk("List")
      [] value = 10 -> TagOk("Compound")
      [] value = 11 -> TagOk("IntArray")
      [] value = 12 -> TagOk("LongArray")
      [] value \in 13..U8_MAX -> TagErr

\* impl TryFrom<u8> for Tag
Tag_try_from(value) ==
    CASE value = 0 -> TagOk("End")
      [] value = 1 -> TagOk("Byte")
      [] value = 2 -> TagOk("Short")
      [] value = 3 -> TagOk("Int")
      [] value = 4 -> TagOk("Long")
      [] value = 5 -> TagOk("Float")
      [] value = 6 -> TagOk("Double")
      [] value = 7 -> TagOk("ByteArray")
      [] value = 8 -> TagOk("String")
      [] value = 9 -> TagOk("List")
      [] value = 10 -> TagOk("Compound")
      [] value = 11 -> TagOk("IntArray")
      [] value = 12 -> TagOk("LongArray")
      [] value \in 13..U8_MAX -> TagErr

\* a plausible slip: the two newest array kinds swapped
Mut_u8_from(tag) ==
    CASE tag = "End" -> 0
      [] tag = "Byte" -> 1
      [] tag = "Short" -> 2
      [] tag = "Int" -> 3
      [] tag = "Long" -> 4
      [] tag = "Float" -> 5
      [] tag = "Double" -> 6
      [] tag = "ByteArray" -> 7
      [] tag = "String" -> 8
      [] tag = "List" -> 9
      [] tag = "Compound" -> 10
      [] tag = "IntArray" -> 12
      [] tag = "LongArray" -> 11

\* impl From<Tag> for u8
u8_from(tag) ==
    CASE tag = "End" -> 0
      [] tag = "Byte" -> 1
      [] tag = "Short" -> 2
      [] tag = "Int" -> 3
      [] tag = "Long" -> 4
      [] tag = "Float" -> 5
      [] tag = "Double" -> 6
      [] tag = "ByteArray" -> 7
      [] tag = "String" -> 8
      [] tag = "List" -> 9
      [] tag = "Compound" -> 10
      [] tag = "IntArray" -> 11
      [] tag = "LongArray" -> 12

----------------------------------------------------------------------------
(* What the reader reports to a visitor.  A content is one reported item:   *)
(* kind "int"/"uint"/"float" with its width and value, "str", "seq" (a list *)
(* payload), "map" (a compound payload), or "array" (the map carrying the   *)
(* original array tag and the data, lib.rs 20-22; val is the tag byte).     *)

IntMax(w) == CASE w = 8 -> 127 [] w = 16 -> 32767 [] OTHER -> 2147483647

IntMin(w) == -IntMax(w) - 1

\* values sampled at width w; a 64-bit item is sampled within 32 bits
SignedSample(w) == (-SampleMag..SampleMag) \cup {IntMin(w), IntMax(w)}

IntWidths == {8, 16, 32, 64}

Content ==
    [kind : {"int"}, width : {8}, val : SignedSample(8)]
    \cup [kind : {"int"}, width : {16}, val : SignedSample(16)]
    \cup [kind : {"int"}, width : {32}, val : SignedSample(32)]
    \cup [kind : {"int"}, width : {64}, val : SignedSample(64)]
    \cup [kind : {"uint"}, width : IntWidths, val : 0..SampleMag]
    \cup [kind : {"float"}, width : {32, 64}, val : -SampleMag..SampleMag]
    \cup [kind : {"str", "seq", "map"}, width : {0}, val : 0..SampleMag]
    \cup [kind : {"array"}, width : {0}, val : U8]

\* the Visitor method a self-describing reader calls for a content
ReportedVisit(c) ==
    CASE c.kind = "int" /\ c.width = 8 -> "visit_i8"
      [] c.kind = "int" /\ c.width = 16 -> "visit_i16"
      [] c.kind = "int" /\ c.width = 32 -> "visit_i32"
      [] c.kind = "int" /\ c.width = 64 -> "visit_i64"
      [] c.kind = "uint" /\ c.width = 8 -> "visit_u8"
      [] c.kind = "uint" /\ c.width = 16 -> "visit_u16"
      [] c.kind = "uint" /\ c.width = 32 -> "visit_u32"
      [] c.kind = "uint" /\ c.width = 64 -> "visit_u64"
      [] c.kind = "float" /\ c.width = 32 -> "visit_f32"
      [] c.kind = "float" /\ c.width = 64 -> "visit_f64"
      [] c.kind = "str" -> "visit_str"
      [] c.kind = "seq" -> "visit_seq"
      [] OTHER -> "visit_map"

\* a Visitor method that the impl does not define forwards to the widest
\* method of its kind, which by default fails with invalid_type
DefaultForward(m) ==
    CASE m \in {"visit_i8", "visit_i16", "visit_i32"} -> "visit_i64"
      [] m \in {"visit_u8", "visit_u16", "visit_u32"} -> "visit_u64"
      [] m = "visit_f32" -> "visit_f64"
      [] OTHER -> "invalid_type"

\* does a visitor defining exactly the methods in defined take the call m
VisitorTakes(defined, m) ==
    \/ m \in defined
    \/ DefaultForward(m) \in defined

\* v as iN: two's complement truncation to w bits
Wrap(v, w) ==
    LET m == IntMax(w) + 1
        r == v % (2 * m)
    IN  IF w >= 32 THEN v ELSE IF r >= m THEN r - 2 * m ELSE r

----------------------------------------------------------------------------
(* Strict scalar discriminators, lib.rs 179-246 *)

\* StrictI8Visitor defines visit_i8 only
strict_i8(c) ==
    IF VisitorTakes({"visit_i8"}, ReportedVisit(c))
    THEN Ok("i8", c.val)
    ELSE Err("invalid type")

\* slip: the accepted value goes through a narrower type
Mut_strict_i16(c) ==
    IF VisitorTakes({"visit_i16"}, ReportedVisit(c))
    THEN Ok("i16", Wrap(c.val, 8))
    ELSE Err("invalid type")

\* Stricti16Visitor defines visit_i16 only
strict_i16(c) ==
    IF VisitorTakes({"visit_i16"}, ReportedVisit(c))
    THEN Ok("i16", c.val)
    ELSE Err("invalid type")

\* slip: the visitor also defines visit_i64, so every signed width is taken
Mut_strict_i32(c) ==
    IF VisitorTakes({"visit_i32", "visit_i64"}, ReportedVisit(c))
    THEN Ok("i32", c.val)
    ELSE Err("invalid type")

\* Stricti32Visitor defines visit_i32 only
strict_i32(c) ==
    IF VisitorTakes({"visit_i32"}, ReportedVisit(c))
    THEN Ok("i32", c.val)
    ELSE Err("invalid type")

----------------------------------------------------------------------------
(* Array tag gate, lib.rs 298-313 *)

\* slip: only the low three bits of the tag are compared
Mut_CompTag_deserialize_mask(N, tag) ==
    IF tag % 8 # N % 8 THEN Err("unexpected array type") ELSE Ok("CompTag", 0)

\* CompTag<N>::deserialize, given the u8 read from the tag field
CompTag_deserialize(N, tag) ==
    IF tag # N THEN Err("unexpected array type") ELSE Ok("CompTag", 0)

----------------------------------------------------------------------------
(* Value, lib.rs 159-177: #[serde(untagged)] tries the variants in          *)
(* declaration order and takes the first one whose deserializer accepts.    *)

IntKinds == {"visit_i8", "visit_i16", "visit_i32", "visit_i64",
             "visit_u8", "visit_u16", "visit_u32", "visit_u64"}

\* Long(i64): ordinary i64 acceptance takes every integer that fits
i64_deserialize(c) ==
    IF ReportedVisit(c) \in IntKinds THEN Ok("i64", c.val) ELSE Err("invalid type")

\* Double(f64): ordinary f64 acceptance takes both float widths (f32 as f64)
\* and every integer
f64_deserialize(c) ==
    IF ReportedVisit(c) \in {"visit_f64", "visit_f32"} \cup IntKinds
    THEN Ok("f64", c.val)
    ELSE Err("invalid type")

\* Float(f32): ordinary f32 acceptance takes both float widths (f64 as f32)
\* and every integer
f32_deserialize(c) ==
    IF ReportedVisit(c) \in {"visit_f32", "visit_f64"} \cup IntKinds
    THEN Ok("f32", c.val)
    ELSE Err("invalid type")

\* String(String)
String_deserialize(c) ==
    IF c.kind = "str" THEN Ok("String", c.val) ELSE Err("invalid type")

\* ByteArray / IntArray / LongArray: the array types validate the tag field
\* of a tag-branded payload through CompTag<N> and then take the data
Array_deserialize(N, c) ==
    IF c.kind = "array" /\ CompTag_deserialize(N, c.val).ok
    THEN Ok("array", c.val)
    ELSE Err("unexpected array type")

\* List(Vec<Value>)
List_deserialize(c) ==
    IF c.kind = "seq" THEN Ok("seq", c.val) ELSE Err("invalid type")

\* Compound(HashMap<String, Value>): takes any map, the tag-and-data map of
\* an array included
Compound_deserialize(c) ==
    IF c.kind \in {"map", "array"} THEN Ok("map", c.val) ELSE Err("invalid type")

\* slip: the wide integer variant declared first
Mut_VariantOrder ==
    <<"Long", "Byte", "Short", "Int", "Double", "Float", "String",
      "ByteArray", "IntArray", "LongArray", "List", "Compound">>

\* slip: the containers declared before the arrays
Mut_VariantOrder_arrays ==
    <<"Byte", "Short", "Int", "Long", "Double", "Float", "String",
      "List", "Compound", "ByteArray", "IntArray", "LongArray">>

\* the declaration order of the variants
VariantOrder ==
    <<"Byte", "Short", "Int", "Long", "Double", "Float", "String",
      "ByteArray", "IntArray", "LongArray", "List", "Compound">>

\* the deserializer each variant is given
VariantTry(variant, c) ==
    CASE variant = "Byte" -> strict_i8(c)
      [] variant = "Short" -> strict_i16(c)
      [] variant = "Int" -> strict_i32(c)
      [] variant = "Long" -> i64_deserialize(c)
      [] variant = "Double" -> f64_deserialize(c)
      [] variant = "Float" -> f32_deserialize(c)
      [] variant = "String" -> String_deserialize(c)
      [] variant = "ByteArray" -> Array_deserialize(BYTE_ARRAY_TAG, c)
      [] variant = "IntArray" -> Array_deserialize(INT_ARRAY_TAG, c)
      [] variant = "LongArray" -> Array_deserialize(LONG_ARRAY_TAG, c)
      [] variant = "List" -> List_deserialize(c)
      [] variant = "Compound" -> Compound_deserialize(c)

\* derived Deserialize for Value: first accepting variant, else an error
Value_deserialize(c) ==
    LET hits == {i \in 1..Len(VariantOrder) : VariantTry(VariantOrder[i], c).ok}
    IN  IF hits = {}
        THEN Err("data did not match any variant of untagged enum Value")
        ELSE LET i == CHOOSE k \in hits : \A j \in hits : k <= j
             IN  Ok(VariantOrder[i], VariantTry(VariantOrder[i], c).val)

----------------------------------------------------------------------------
(* Compound decoding (section 4.5 of the specification): the decoder reads  *)
(* a tag byte; End closes the compound, any other tag is followed by a name *)
(* and one value of that tag.  Text validity of names and strings is not    *)
(* modelled: every byte run is taken as decodable text.                     *)

NoValue == [tag |-> "End", raw |-> <<>>, items |-> <<>>, map |-> {}]

VOk(next, value) == [ok |-> TRUE, next |-> next, value |-> value, err |-> ""]

VErr(err) == [ok |-> FALSE, next |-> 0, value |-> NoValue, err |-> err]

Scalar(tag, raw) == [tag |-> tag, raw |-> raw, items |-> <<>>, map |-> {}]

\* payload bytes of the fixed-width kinds
FixedSize(tag) ==
    CASE tag = "Byte" -> 1
      [] tag = "Short" -> 2
      [] tag = "Int" -> 4
      [] tag = "Long" -> 8
      [] tag = "Float" -> 4
      [] tag = "Double" -> 8

FixedTags == {"Byte", "Short", "Int", "Long", "Float", "Double"}

ArrayTags == {"ByteArray", "IntArray", "LongArray"}

ElemSize(tag) ==
    CASE tag = "ByteArray" -> 1 [] tag = "IntArray" -> 4 [] tag = "LongArray" -> 8

\* the constant the array type's CompTag gate is built from
ArrayGate(tag) ==
    CASE tag = "ByteArray" -> BYTE_ARRAY_TAG
      [] tag = "IntArray" -> INT_ARRAY_TAG
      [] tag = "LongArray" -> LONG_ARRAY_TAG

Has(inp, p, n) == p + n - 1 <= Len(inp)

\* big-endian unsigned 16-bit length at p
U16At(inp, p) == inp[p] * 256 + inp[p + 1]

\* is the signed 32-bit big-endian count at p negative
I32Negative(inp, p) == inp[p] >= 128

\* the non-negative signed 32-bit big-endian count at p
I32At(inp, p) == ((inp[p] * 256 + inp[p + 1]) * 256 + inp[p + 2]) * 256 + inp[p + 3]

\* entry under name replaces an earlier entry of that name
Insert(m, name, value) ==
    {e \in m : e.name # name} \cup {[name |-> name, value |-> value]}

\* a length-prefixed byte run: the result's value.raw is the run
ReadText(inp, p) ==
    IF ~Has(inp, p, 2) THEN VErr("Truncated")
    ELSE LET n == U16At(inp, p)
         IN  IF ~Has(inp, p + 2, n) THEN VErr("Truncated")
             ELSE VOk(p + 2 + n, Scalar("String", SubSeq(inp, p + 2, p + 1 + n)))

RECURSIVE ReadValue(_, _, _)
RECURSIVE ReadItems(_, _, _, _, _)
RECURSIVE ReadCompound(_, _, _)

\* one value of the given tag starting at p
ReadValue(inp, tag, p) ==
    CASE tag \in FixedTags ->
            IF Has(inp, p, FixedSize(tag))
            THEN VOk(p + FixedSize(tag),
                     Scalar(tag, SubSeq(inp, p, p + FixedSize(tag) - 1)))
            ELSE VErr("Truncated")
      [] tag = "String" -> ReadText(inp, p)
      [] tag \in ArrayTags ->
            IF ~Has(inp, p, 1) THEN VErr("Truncated")
            ELSE IF ~CompTag_deserialize(ArrayGate(tag), inp[p]).ok
            THEN VErr("ArrayTypeMismatch")
            ELSE IF ~Has(inp, p + 1, 4) THEN VErr("Truncated")
            ELSE IF I32Negative(inp, p + 1) THEN VErr("NegativeLength")
            ELSE LET n == I32At(inp, p + 1)
                 IN  IF n > Len(inp) \/ ~Has(inp, p + 5, n * ElemSize(tag))
                     THEN VErr("Truncated")
                     ELSE VOk(p + 5 + n * ElemSize(tag),
                              Scalar(tag, SubSeq(inp, p + 5,
                                                 p + 4 + n * ElemSize(tag))))
      [] tag = "List" ->
            IF ~Has(inp, p, 1) THEN VErr("Truncated")
            ELSE IF ~Tag_try_from(inp[p]).ok THEN VErr("UnknownTag")
            ELSE IF ~Has(inp, p + 1, 4) THEN VErr("Truncated")
            ELSE IF I32Negative(inp, p + 1) THEN VErr("NegativeLength")
            ELSE IF Tag_try_from(inp[p]).kind = "End"
            THEN VOk(p + 5, [NoValue EXCEPT !.tag = "List"])
            ELSE IF I32At(inp, p + 1) > Len(inp) THEN VErr("Truncated")
            ELSE ReadItems(inp, Tag_try_from(inp[p]).kind, I32At(inp, p + 1),
                           p + 5, <<>>)
      [] tag = "Compound" -> ReadCompound(inp, p, {})
      [] OTHER -> VErr("UnexpectedEnd")

\* n more list elements of one tag starting at p, after the elements in acc
ReadItems(inp, tag, n, p, acc) ==
    IF n = 0 THEN VOk(p, [NoValue EXCEPT !.tag = "List", !.items = acc])
    ELSE LET v == ReadValue(inp, tag, p)
         IN  IF ~v.ok THEN v
             ELSE ReadItems(inp, tag, n - 1, v.next, Append(acc, v.value))

\* the entries of a nested compound starting at p, after the entries in m
ReadCompound(inp, p, m) ==
    IF ~Has(inp, p, 1) THEN VErr("Truncated")
    ELSE LET t == Tag_try_from(inp[p])
         IN  IF ~t.ok THEN VErr("UnknownTag")
             ELSE IF t.kind = "End"
             THEN VOk(p + 1, [NoValue EXCEPT !.tag = "Compound", !.map = m])
             ELSE LET name == ReadText(inp, p + 1)
                  IN  IF ~name.ok THEN name
                      ELSE LET v == ReadValue(inp, t.kind, name.next)
                           IN  IF ~v.ok THEN v
                               ELSE ReadCompound(inp, v.next,
                                                 Insert(m, name.value.raw, v.value))

\* name and value of one entry whose (non-End) tag byte is at p
ReadEntryAt(inp, p) ==
    LET name == ReadText(inp, p + 1)
    IN  IF ~name.ok THEN name
        ELSE ReadValue(inp, Tag_try_from(inp[p]).kind, name.next)

----------------------------------------------------------------------------
(* Calls *)

NoContent == [kind |-> "none", width |-> 0, val |-> 0]

Call(op, N, b, t, c) == [op |-> op, N |-> N, b |-> b, t |-> t, c |-> c]

\* bytes the enumerated compound bodies are made of: the End, Byte and
\* Compound discriminants (0 and 1 also serve as name lengths and payloads)
InputBytes == {0, 1, 10}

\* compound bodies decoded next to the enumerated ones: one Byte entry "A",
\* a one-element list of Byte, a byte array of one element, an int array
\* whose element tag is the long array's, a string entry, an array of
\* negative length, a Short entry, a byte that is no discriminant
Scenarios ==
    { <<1, 0, 1, 65, 5, 0>>,
      <<9, 0, 0, 1, 0, 0, 0, 1, 7, 0>>,
      <<7, 0, 0, 7, 0, 0, 0, 1, 9, 0>>,
      <<11, 0, 0, 12, 0, 0, 0, 0, 0>>,
      <<8, 0, 1, 65, 0, 1, 66, 0>>,
      <<7, 0, 0, 7, 255, 255, 255, 255, 0>>,
      <<2, 0, 0, 0, 5, 0>>,
      <<13>>,
      <<1, 0, 0, 5, 13>> }

Inputs == UNION {[1..k -> InputBytes] : k \in 0..MaxInput} \cup Scenarios

Init ==
    /\ res = Pending
    /\ pos = 1
    /\ entries = {}
    /\ \/ /\ \E b \in U8 : call = Call("try_from", 0, b, "End", NoContent)
          /\ input = <<>> /\ pc = "call"
       \/ /\ \E t \in Tag : \E op \in {"u8_from", "round_trip"} :
                call = Call(op, 0, 0, t, NoContent)
          /\ input = <<>> /\ pc = "call"
       \/ /\ \E c \in Content : \E op \in {"strict_i8", "strict_i16", "strict_i32", "Value"} :
                call = Call(op, 0, 0, "End", c)
          /\ input = <<>> /\ pc = "call"
       \/ /\ \E N \in U8 : \E b \in U8 : call = Call("CompTag", N, b, "End", NoContent)
          /\ input = <<>> /\ pc = "call"
       \/ /\ call = Call("compound", 0, 0, "End", NoContent)
          /\ input \in Inputs
          /\ pc = "ReadingEntry"

Return(r) ==
    /\ res' = r
    /\ pc' = "done"
    /\ UNCHANGED <<call, input, pos, entries>>

DoTryFrom ==
    /\ pc = "call" /\ call.op = "try_from"
    /\ Return(Tag_try_from(call.b))

DoU8From ==
    /\ pc = "call" /\ call.op = "u8_from"
    /\ Return(Ok("u8", u8_from(call.t)))

\* Tag::try_from(u8::from(t))
DoRoundTrip ==
    /\ pc = "call" /\ call.op = "round_trip"
    /\ Return(Tag_try_from(u8_from(call.t)))

DoStrictI8 ==
    /\ pc = "call" /\ call.op = "strict_i8"
    /\ Return(strict_i8(call.c))

DoStrictI16 ==
    /\ pc = "call" /\ call.op = "strict_i16"
    /\ Return(strict_i16(call.c))

DoStrictI32 ==
    /\ pc = "call" /\ call.op = "strict_i32"
    /\ Return(strict_i32(call.c))

DoValue ==
    /\ pc = "call" /\ call.op = "Value"
    /\ Return(Value_deserialize(call.c))

DoCompTag ==
    /\ pc = "call" /\ call.op = "CompTag"
    /\ Return(CompTag_deserialize(call.N, call.b))

\* the compound decode fails: no value is returned
Fail(err) ==
    /\ pc' = "Failed"
    /\ res' = Err(err)
    /\ entries' = {}
    /\ UNCHANGED <<call, input, pos>>

\* input ends before an End tag
CompoundTruncated ==
    /\ pc = "ReadingEntry"
    /\ ~Has(input, pos, 1)
    /\ Fail("Truncated")

\* the tag byte is no discriminant
CompoundUnknownTag ==
    /\ pc = "ReadingEntry"
    /\ Has(input, pos, 1)
    /\ ~Tag_try_from(input[pos]).ok
    /\ Fail("UnknownTag")

\* the End tag closes the compound
CompoundEnd ==
    /\ pc = "ReadingEntry"
    /\ Has(input, pos, 1)
    /\ Tag_try_from(input[pos]) = TagOk("End")
    /\ pc' = "Done"
    /\ pos' = pos + 1
    /\ res' = Ok("Compound", Cardinality(entries))
    /\ UNCHANGED <<call, input, entries>>

\* any other tag: a name and one value of that tag, inserted under the name
CompoundEntry ==
    /\ pc = "ReadingEntry"
    /\ Has(input, pos, 1)
    /\ Tag_try_from(input[pos]).ok
    /\ Tag_try_from(input[pos]) # TagOk("End")
    /\ LET v == ReadEntryAt(input, pos)
       IN  /\ v.ok
           /\ entries' = Insert(entries, ReadText(input, pos + 1).value.raw, v.value)
           /\ pos' = v.next
           /\ UNCHANGED <<call, pc, res, input>>

\* the name or the value of the entry cannot be read
CompoundEntryFails ==
    /\ pc = "ReadingEntry"
    /\ Has(input, pos, 1)
    /\ Tag_try_from(input[pos]).ok
    /\ Tag_try_from(input[pos]) # TagOk("End")
    /\ ~ReadEntryAt(input, pos).ok
    /\ Fail(ReadEntryAt(input, pos).err)

Next ==
    \/ DoTryFrom
    \/ DoU8From
    \/ DoRoundTrip
    \/ DoStrictI8
    \/ DoStrictI16
    \/ DoStrictI32
    \/ DoValue
    \/ DoCompTag
    \/ CompoundTruncated
    \/ CompoundUnknownTag
    \/ CompoundEnd
    \/ CompoundEntry
    \/ CompoundEntryFails

Spec == Init /\ [][Next]_vars

----------------------------------------------------------------------------
(* Properties *)

Returned(op) == pc = "done" /\ call.op = op

\* C1: Tag::try_from returns a Tag for every byte in 0..=12 and the error for
\* every byte in 13..=255; every byte gets one of the two.
C1_TryFromTotal ==
    Returned("try_from") =>
        /\ call.b \in 0..12 => res.ok /\ res.kind \in Tag
        /\ call.b \in 13..255 => ~res.ok /\ res = TagErr
        /\ res.ok \/ res = TagErr

C1_Witness == Returned("try_from") /\ call.b = 13 /\ ~res.ok

\* C2: Tag::try_from(u8::from(t)) is t for each of the 13 tags, no two bytes
\* of 0..=12 yield the same Tag, and u8::from gives back the byte.
C2_RoundTrip ==
    /\ Returned("round_trip") => res = TagOk(call.t)
    /\ Returned("try_from") /\ res.ok =>
          /\ \A b2 \in 0..12 : b2 # call.b => Tag_try_from(b2) # res
          /\ u8_from(res.kind) = call.b

C2_Witness == Returned("round_trip") /\ call.t = "LongArray" /\ res.ok

StrictWidth(op) ==
    CASE op = "strict_i8" -> 8 [] op = "strict_i16" -> 16 [] op = "strict_i32" -> 32

StrictOps == {"strict_i8", "strict_i16", "strict_i32"}

\* C3: strict_iN accepts exactly the signed integers reported at width N and
\* fails with the type error on any other width or kind.
C3_StrictExactWidth ==
    pc = "done" /\ call.op \in StrictOps =>
        /\ res.ok <=> (call.c.kind = "int" /\ call.c.width = StrictWidth(call.op))
        /\ ~res.ok => res = Err("invalid type")

\* a reported 8-bit 2 offered to strict_i32 is refused though it fits
C3_Witness ==
    /\ Returned("strict_i32")
    /\ call.c = [kind |-> "int", width |-> 8, val |-> 2]
    /\ ~res.ok

IntVariant(w) ==
    CASE w = 8 -> "Byte" [] w = 16 -> "Short" [] w = 32 -> "Int" [] w = 64 -> "Long"

C5_FloatVariantByWidth ==
    Returned("Value") =>
        /\ call.c.kind = "float" /\ call.c.width = 32 => res.ok /\ res.kind = "Float"
        /\ call.c.kind = "float" /\ call.c.width = 64 => res.ok /\ res.kind = "Double"
        /\ call.c.kind = "int" => res.kind \notin {"Float", "Double"}

\* C6: CompTag<N> decoded from byte b yields the marker iff b = N and fails
\* with the array type error otherwise.
C6_CompTagGate ==
    Returned("CompTag") =>
        /\ res.ok <=> call.b = call.N
        /\ res.ok => res = Ok("CompTag", 0)
        /\ ~res.ok => res = Err("unexpected array type")

\* the IntArray gate on the LongArray discriminant
C6_Witness == Returned("CompTag") /\ call.N = 11 /\ call.b = 12 /\ ~res.ok

ArrayVariants == {"ByteArray", "IntArray", "LongArray"}

ArrayVariantOf(b) ==
    CASE b = 7 -> "ByteArray" [] b = 11 -> "IntArray" [] b = 12 -> "LongArray"

Decoding == call.op = "compound"

\* C8: compound decoding starts in Reading-Entry, stays there after every
\* non-End tag whose entry is read, moves to Done exactly when the End byte 0
\* is read, never leaves Done, decodes the single End byte to the empty
\* mapping, and fails with Truncated, returning nothing, when the input ends
\* before an End tag.
C8_Step ==
    /\ Decoding /\ pc = "Done" => pc' = "Done"
    /\ Decoding /\ pc = "ReadingEntry" /\ Has(input, pos, 1) /\ input[pos] = 0 =>
          pc' = "Done" /\ res'.ok /\ res'.kind = "Compound" /\ entries' = entries
    /\ Decoding /\ pc = "ReadingEntry" /\ Has(input, pos, 1) /\ input[pos] # 0 =>
          /\ pc' # "Done"
          /\ pc' = "ReadingEntry" <=> ReadEntryAt(input, pos).ok /\ input[pos] \in 1..12
    /\ Decoding /\ pc = "ReadingEntry" /\ ~Has(input, pos, 1) =>
          pc' = "Failed" /\ res' = Err("Truncated") /\ entries' = {}

C8_State ==
    Decoding =>
        /\ pc = "Done" => pos > 1 /\ input[pos - 1] = 0 /\ res.ok
        /\ pc = "Done" /\ input = <<0>> => entries = {}
        /\ pc # "Done" => ~res.ok

C8_CompoundMachine ==
    /\ Decoding => pc = "ReadingEntry"
    /\ []C8_State
    /\ [][C8_Step]_vars

\* two Byte entries were read and the End tag closed the compound
C8_Witness ==
    /\ Decoding /\ pc = "Done"
    /\ Len(input) = 9 /\ pos = 10
    /\ input[1] = 1 /\ input[5] = 1

\* C9: an accepting strict_iN returns the reported value unchanged, the
\* minimum and maximum of the width included.
C9_StrictValueUnchanged ==
    pc = "done" /\ call.op \in StrictOps /\ res.ok => res.val = call.c.val

C9_Witness ==
    /\ Returned("strict_i16")
    /\ call.c.val = IntMax(16)
    /\ res.ok /\ res.val = 32767

\* C10: u8::from(t) is the discriminant the enum declares for t, the three
\* array constants are u8::from of their array kinds, and a gate built from
\* a constant accepts exactly the byte Tag::try_from maps to that kind.
C10_DiscriminantsAgree ==
    /\ Returned("u8_from") =>
          /\ res.val = TagDiscriminant(call.t)
          /\ call.t = "ByteArray" => res.val = BYTE_ARRAY_TAG /\ res.val = 7
          /\ call.t = "IntArray" => res.val = INT_ARRAY_TAG /\ res.val = 11
          /\ call.t = "LongArray" => res.val = LONG_ARRAY_TAG /\ res.val = 12
    /\ Returned("CompTag") /\ call.N = BYTE_ARRAY_TAG =>
          (res.ok <=> Tag_try_from(call.b) = TagOk("ByteArray"))
    /\ Returned("CompTag") /\ call.N = INT_ARRAY_TAG =>
          (res.ok <=> Tag_try_from(call.b) = TagOk("IntArray"))
    /\ Returned("CompTag") /\ call.N = LONG_ARRAY_TAG =>
          (res.ok <=> Tag_try_from(call.b) = TagOk("LongArray"))

C10_Witness == Returned("u8_from") /\ call.t = "IntArray" /\ res.val = 11

====
